---- MODULE Spec2Model ----
(***************************************************************************)
(* Supply-chain dashboard (src/app.py).  The program is a Streamlit        *)
(* script: every user interaction (a widget change, a button click)        *)
(* re-executes the whole file top to bottom.  One action of the model is   *)
(* one such interaction followed by the complete script run it triggers.   *)
(*                                                                         *)
(* Text (CSV fields, string cells, string aggregation results) is a        *)
(* sequence of character codes, so that parsing, concatenation and         *)
(* lexicographic ordering are computed rather than assumed.  Column names  *)
(* and messages, which the script only compares for equality, stay TLA+    *)
(* strings.  An optional value (Python None) is the empty sequence, a      *)
(* present value v is <<v>>.                                               *)
(*                                                                         *)
(* pandas is modelled as release 2.x behaves: read_csv's column typing,    *)
(* skipna sums, groupby with sorted keys and dropped missing keys,         *)
(* string concatenation as the "sum" of an object column, TypeError for    *)
(* the mean of an object column and for ordering str against int.          *)
(***************************************************************************)
EXTENDS Integers, Sequences, FiniteSets, TLC

VARIABLES
    use_local,   \* sidebar checkbox (line 12)
    data_url,    \* sidebar text input (line 15)
    uploaded,    \* sidebar file uploader (line 17): None or <<file>>
    page,        \* sidebar radio (line 64)
    top_n,       \* value the RQ1 slider returns when rendered (line 160)
    local_file,  \* the world: content of data/DataCoSupplyChainDataset.csv, or None
    cache,       \* st.cache_data store: call key -> returned DataFrame
    df,          \* the script variable df at the end of the latest run
    last_ok,     \* history: the DataFrame of the latest successful load
    out          \* what the latest script run rendered

vars == <<use_local, data_url, uploaded, page, top_n, local_file, cache, df, last_ok, out>>

None == <<>>
Some(v) == <<v>>

----------------------------------------------------------------------------
(* Bounds of the model.                                                    *)

\* rows of an enumerated CSV file
MaxRows == 2
\* product groups of the "wide" files that make head(N) cut
MaxGroups == 7
\* extra, non-candidate column names added to a header in role resolution
MaxDecoys == 1

----------------------------------------------------------------------------
(* Text.                                                                   *)

RECURSIVE Digits(_)
\* the decimal text of a natural number, as a CSV file holds it
Digits(n) == IF n < 10 THEN <<48 + n>> ELSE Digits(n \div 10) \o <<48 + (n % 10)>>

IsDigits(t) == t # <<>> /\ \A i \in 1..Len(t) : t[i] \in 48..57

RECURSIVE ParseNat(_)
\* the number a field of digits denotes
ParseNat(t) ==
    IF t = <<>> THEN 0
    ELSE 10 * ParseNat(SubSeq(t, 1, Len(t) - 1)) + (t[Len(t)] - 48)

RECURSIVE TextLess(_, _)
\* Python's str < str: lexicographic by code point
TextLess(a, b) ==
    IF b = <<>> THEN FALSE
    ELSE IF a = <<>> THEN TRUE
    ELSE IF a[1] # b[1] THEN a[1] < b[1]
    ELSE TextLess(Tail(a), Tail(b))

\* "A", "B", ...: the i-th capital letter
Letter(i) == <<64 + i>>
TxtEmpty == <<>>
\* "abc"
TxtAbc == <<97, 98, 99>>
\* "N/A"
TxtNA == <<78, 47, 65>>

----------------------------------------------------------------------------
(* Values: DataFrame cells and aggregation results.  A number is the       *)
(* rational n/d (d = 1 for cells and sums, d = count for means).           *)

NaN == [k |-> "nan", n |-> 0, d |-> 1, s |-> <<>>]
Rat(x, y) == [k |-> "num", n |-> x, d |-> y, s |-> <<>>]
Num(x) == Rat(x, 1)
Str(t) == [k |-> "str", n |-> 0, d |-> 1, s |-> t]

IsNum(v) == v.k = "num"
IsStr(v) == v.k = "str"
IsNaN(v) == v.k = "nan"

NumEq(a, b) == a.n * b.d = b.n * a.d
NumLess(a, b) == a.n * b.d < b.n * a.d

\* equality of two values as numbers / strings / missing
ValEq(a, b) ==
    /\ a.k = b.k
    /\ IsNum(a) => NumEq(a, b)
    /\ IsStr(a) => a.s = b.s

----------------------------------------------------------------------------
(* CSV files and pd.read_csv.  A file is [cols, rows]: the header's names  *)
(* and one function from column name to field text per data row.  A file   *)
(* without header has nothing to parse (pandas raises EmptyDataError).     *)

EmptyFile == [cols |-> {}, rows |-> <<>>]

\* fields read_csv takes for a missing value (its default na_values, in part)
NaTokens == {TxtEmpty, TxtNA}

IsNaField(t) == t \in NaTokens

\* a column is numeric when every field that is not missing is a number
NumericColumn(file, c) ==
    \A i \in 1..Len(file.rows) :
        IsNaField(file.rows[i][c]) \/ IsDigits(file.rows[i][c])

ParseCell(file, c, t) ==
    IF IsNaField(t) THEN NaN
    ELSE IF NumericColumn(file, c) THEN Num(ParseNat(t))
    ELSE Str(t)

\* the statement raises instead of returning
Raises(r) == r.exc # ""

read_csv(file) ==
    IF file.cols = {} THEN [exc |-> "EmptyDataError", frame |-> None]
    ELSE [exc |-> "",
          frame |-> Some([columns |-> file.cols,
                          rows |-> [i \in 1..Len(file.rows) |->
                                      [c \in file.cols |->
                                          ParseCell(file, c, file.rows[i][c])]]])]

\* dtype of a DataFrame column: object as soon as one cell is a str
IsObject(frame, c) == \E i \in 1..Len(frame.rows) : IsStr(frame.rows[i][c])

----------------------------------------------------------------------------
(* pandas reductions the script calls.                                     *)

Column(frame, c) == [i \in 1..Len(frame.rows) |-> frame.rows[i][c]]

RECURSIVE SumNums(_)
\* sum of the numeric cells of a sequence of values
SumNums(vs) ==
    IF vs = <<>> THEN 0
    ELSE (IF IsNum(vs[1]) THEN vs[1].n ELSE 0) + SumNums(Tail(vs))

RECURSIVE ConcatStrs(_)
\* Python's + over the str cells of a sequence of values
ConcatStrs(vs) ==
    IF vs = <<>> THEN <<>>
    ELSE (IF IsStr(vs[1]) THEN vs[1].s ELSE <<>>) \o ConcatStrs(Tail(vs))

CountValid(vs) == Cardinality({i \in 1..Len(vs) : ~IsNaN(vs[i])})

HasStr(vs) == \E i \in 1..Len(vs) : IsStr(vs[i])
HasNaN(vs) == \E i \in 1..Len(vs) : IsNaN(vs[i])

\* Series.sum() (skipna): a numeric column adds its numbers; an object
\* column has its missing cells replaced by 0 and is then added up with
\* Python's +, which concatenates str and raises on str + int
SeriesSum(vs) ==
    IF ~HasStr(vs) THEN [exc |-> "", val |-> Num(SumNums(vs))]
    ELSE IF HasNaN(vs) THEN [exc |-> "TypeError", val |-> NaN]
    ELSE [exc |-> "", val |-> Str(ConcatStrs(vs))]

\* Series.nunique(): distinct values, missing ones not counted
SeriesNunique(vs) == Cardinality({vs[i] : i \in {j \in 1..Len(vs) : ~IsNaN(vs[j])}})

\* ordering of two non-missing values of one kind
ValLess(a, b) == IF IsNum(a) THEN NumLess(a, b) ELSE TextLess(a.s, b.s)

\* a sort has to order a str against a number: Python raises TypeError
MixedKinds(vs) ==
    /\ \E i \in 1..Len(vs) : IsStr(vs[i])
    /\ \E i \in 1..Len(vs) : IsNum(vs[i])

\* x sorts strictly before y in a descending sort with missing values last
DescBefore(x, y) ==
    IF IsNaN(x) THEN FALSE
    ELSE IF IsNaN(y) THEN TRUE
    ELSE ValLess(y, x)

\* x sorts strictly before y in an ascending sort with missing values last
AscBefore(x, y) ==
    IF IsNaN(x) THEN FALSE
    ELSE IF IsNaN(y) THEN TRUE
    ELSE ValLess(x, y)

\* x sorts strictly before y
Before(x, y, desc) == IF desc THEN DescBefore(x, y) ELSE AscBefore(x, y)

RECURSIVE InsertIdx(_, _, _, _)
\* index x placed after every index of the sorted p whose value does not
\* sort after vs[x] (the sort is stable)
InsertIdx(p, x, vs, desc) ==
    IF p = <<>> THEN <<x>>
    ELSE IF Before(vs[x], vs[p[1]], desc) THEN <<x>> \o p
    ELSE <<p[1]>> \o InsertIdx(Tail(p), x, vs, desc)

RECURSIVE SortIdx(_, _, _)
\* the indices 1..n of vs in sorted order
SortIdx(vs, n, desc) ==
    IF n = 0 THEN <<>>
    ELSE InsertIdx(SortIdx(vs, n - 1, desc), n, vs, desc)

\* the rows of table t in the order that sorts the values vs
Reorder(t, vs, desc) ==
    LET p == SortIdx(vs, Len(vs), desc) IN [i \in 1..Len(t) |-> t[p[i]]]

\* DataFrame.sort_values(col, ascending=False); vs is the column sorted by
SortValuesDesc(t, vs) ==
    IF MixedKinds(vs)
    THEN [exc |-> "TypeError", table |-> <<>>]
    ELSE [exc |-> "", table |-> Reorder(t, vs, TRUE)]

\* DataFrame.head(n)
HeadN(t, n) == SubSeq(t, 1, IF n < Len(t) THEN n ELSE Len(t))

----------------------------------------------------------------------------
(* groupby: one group per distinct non-missing key, keys ascending.        *)

RECURSIVE Distinct(_)
\* the distinct non-missing values of vs, in order of first appearance
Distinct(vs) ==
    IF vs = <<>> THEN <<>>
    ELSE LET r == Distinct(SubSeq(vs, 1, Len(vs) - 1))
             x == vs[Len(vs)]
         IN  IF IsNaN(x) \/ (\E i \in 1..Len(r) : r[i] = x) THEN r ELSE Append(r, x)

\* the values vs in ascending order
SortAsc(vs) == Reorder(vs, vs, FALSE)

GroupKeys(frame, c) == SortAsc(Distinct(Column(frame, c)))

\* the cells of column m in the rows of the group of key
GroupCells(frame, c, key, m) ==
    Column([frame EXCEPT !.rows = SelectSeq(frame.rows, LAMBDA r : r[c] = key)], m)

\* "sum" of a group: numbers add; in an object column the strs of the
\* group concatenate and a group without any gives the int 0
GroupSum(cells) ==
    IF HasStr(cells) THEN Str(ConcatStrs(cells)) ELSE Num(SumNums(cells))

\* "mean" of a group of a numeric column: missing when no cell is valid
GroupMean(cells) ==
    IF CountValid(cells) = 0 THEN NaN ELSE Rat(SumNums(cells), CountValid(cells))

\* "count": the valid cells;  "size": the rows
GroupCount(cells) == Num(CountValid(cells))
GroupSize(cells) == Num(Len(cells))

\* Series.value_counts(): rows per distinct value, most frequent first
CountsOf(vs, ks) ==
    [i \in 1..Len(ks) |->
        [key |-> ks[i], Count |-> Num(Cardinality({j \in 1..Len(vs) : vs[j] = ks[i]}))]]

SortByCount(t) == Reorder(t, [i \in 1..Len(t) |-> t[i].Count], TRUE)

ValueCounts(vs) == SortByCount(CountsOf(vs, Distinct(vs)))

----------------------------------------------------------------------------
(* Role resolution (lines 50-54 and 93-103).                               *)

RevNames == <<"Revenue", "Revenue generated", "Benefit per order", "Benefit", "Profit">>
PriceNames == <<"Price", "Unit price", "Price per unit">>
QtyNames == <<"Quantity", "Order Item Quantity", "Number of products sold">>
ProdNames == <<"Product Name", "SKU", "Product", "Product type", "Product Category">>
SuppNames == <<"Supplier Name", "Supplier name">>
LeadNames == <<"Lead time", "Shipment Days", "Shipping Time", "Shipping days">>
DefectNames == <<"Defect rates", "Defects">>
CarrierNames == <<"Shipping carriers", "Shipping Mode", "Carrier">>
ShipCostNames == <<"Shipping costs", "Freight Cost">>
CustSegNames == <<"Customer Segment", "Customer demographics", "Segment">>
RegionNames == <<"Region", "Customer Country", "Market">>

RECURSIVE safe_col_last(_, _, _)
\* a safe_col that keeps looking after a match and so returns the last one
safe_col_last(columns, names, i) ==
    IF i > Len(names) THEN None
    ELSE IF safe_col_last(columns, names, i + 1) # None
    THEN safe_col_last(columns, names, i + 1)
    ELSE IF names[i] \in columns THEN Some(names[i])
    ELSE None

RECURSIVE safe_col_loop(_, _, _)
\* for n in names: if n in df.columns: return n;  return None
safe_col_loop(columns, names, i) ==
    IF i > Len(names) THEN None
    ELSE IF names[i] \in columns THEN Some(names[i])
    ELSE safe_col_loop(columns, names, i + 1)

\* safe_col(df, *names); d is the script's df, None or <<frame>>.  With
\* df = None the first test "n in df.columns" raises AttributeError
safe_col(d, names) ==
    IF d = None THEN [exc |-> "AttributeError", val |-> None]
    ELSE [exc |-> "", val |-> safe_col_loop(d[1].columns, names, 1)]

\* the eleven guesses of lines 93-103
RoleGuesses(d) ==
    [rev_col       |-> safe_col(d, RevNames).val,
     price_col     |-> safe_col(d, PriceNames).val,
     qty_col       |-> safe_col(d, QtyNames).val,
     prod_col      |-> safe_col(d, ProdNames).val,
     supp_col      |-> safe_col(d, SuppNames).val,
     lead_col      |-> safe_col(d, LeadNames).val,
     defect_col    |-> safe_col(d, DefectNames).val,
     carrier_col   |-> safe_col(d, CarrierNames).val,
     ship_cost_col |-> safe_col(d, ShipCostNames).val,
     cust_seg_col  |-> safe_col(d, CustSegNames).val,
     region_col    |-> safe_col(d, RegionNames).val]

----------------------------------------------------------------------------
(* What one script run renders.                                            *)

Pages == {"Home", "Dashboard", "Data Overview", "Products (RQ1)", "Suppliers (RQ2)",
          "Logistics (RQ3)", "Customers (RQ4)", "Diagnostics"}

\* st.slider("Top N", 5, 30, 10)
SliderMin == 5
SliderMax == 30
SliderDefault == 10
\* .head(20) of the Dashboard chart, .head(10) of the RQ1 price focus,
\* .head(25) of the missing-value profile
DashboardTop == 20
FocusTop == 10
MissingTop == 25

\* messages: the widget that shows it (st.sidebar.warning, st.info, ...) and its text
MsgNoInput == <<"sidebar.warning", "Please upload a file or paste a URL.">>
MsgLoadError == <<"sidebar.error", "Could not load data: {e}">>
MsgLoadFirst == <<"warning", "Load the dataset from the sidebar first.">>
MsgNoProdRev == <<"info", "Columns for product or revenue not found.">>
MsgNoCarrierInfo == <<"info", "Carrier column not found.">>
MsgNoMissing == <<"info", "No missing values detected.">>
MsgNoCorr == <<"info", "Not enough numeric columns to compute correlation.">>
MsgNoRequired == <<"warning", "Required columns not found.">>
MsgNoSupplier == <<"warning", "Supplier column not found.">>
MsgNoCarrier == <<"warning", "Carrier column not found.">>
MsgNoSegRev == <<"warning", "Customer segment or revenue column not found.">>

\* nothing rendered yet
NoOutput ==
    [load_btn |-> FALSE, attempted |-> <<>>, fetched |-> <<>>, load_exc |-> "",
     msgs |-> {}, exc |-> "", stopped |-> FALSE, home |-> FALSE, roles |-> None,
     slider |-> FALSE, kpi |-> None, rev_by_prod |-> None, carrier_counts |-> None,
     overview |-> None, grouped |-> None, price_box |-> None, stats |-> None,
     stats_shown |-> None, ship |-> None, seg |-> None, diagnostics |-> None]

\* the run is over: an exception propagated or st.stop() was called
Ended(o) == o.exc # "" \/ o.stopped

Say(o, m) == [o EXCEPT !.msgs = @ \cup {m}]
Raise(o, e) == [o EXCEPT !.exc = e]

----------------------------------------------------------------------------
(* Dashboard (lines 106-132).                                              *)

\* groupby(key_col)[val_col].sum().reset_index(): one row per group
GroupedSumOver(f, key_col, val_col, ks) ==
    [i \in 1..Len(ks) |->
        [key |-> ks[i], value |-> GroupSum(GroupCells(f, key_col, ks[i], val_col))]]

GroupedSum(f, key_col, val_col) == GroupedSumOver(f, key_col, val_col, GroupKeys(f, key_col))

\* ... .sort_values(val_col, ascending=False)
SortByValue(t) == SortValuesDesc(t, [i \in 1..Len(t) |-> t[i].value])

GroupedSumSorted(f, key_col, val_col) == SortByValue(GroupedSum(f, key_col, val_col))

\* lines 109-117: the four KPIs.  A metric shows the dash for a value that
\* is None, missing or (products, orders) zero
DashboardKpis(f, r, o) ==
    LET total_rows     == Len(f.rows)
        total_products == IF r.prod_col # None
                          THEN Some(SeriesNunique(Column(f, r.prod_col[1]))) ELSE None
        rev            == IF r.rev_col # None
                          THEN SeriesSum(Column(f, r.rev_col[1]))
                          ELSE [exc |-> "", val |-> NaN]
        total_orders   == IF "Order ID" \in f.columns
                          THEN SeriesNunique(Column(f, "Order ID")) ELSE total_rows
    IN  IF Raises(rev) THEN Raise(o, rev.exc)
        ELSE [o EXCEPT !.kpi = Some(
                [Rows |-> total_rows,
                 UniqueProducts |-> IF total_products # None /\ total_products # Some(0)
                                    THEN total_products ELSE None,
                 TotalRevenue |-> IF ~IsNaN(rev.val) THEN Some(rev.val) ELSE None,
                 Orders |-> IF total_orders # 0 THEN Some(total_orders) ELSE None])]

\* lines 119-124: revenue by product, top 20
ShowRevenue(o, t) ==
    IF Raises(t) THEN Raise(o, t.exc)
    ELSE [o EXCEPT !.rev_by_prod = Some(HeadN(t.table, DashboardTop))]

DashboardRevenue(f, r, o) ==
    IF Ended(o) THEN o
    ELSE IF r.prod_col # None /\ r.rev_col # None
    THEN ShowRevenue(o, GroupedSumSorted(f, r.prod_col[1], r.rev_col[1]))
    ELSE Say(o, MsgNoProdRev)

\* lines 126-132: carrier distribution
DashboardCarriers(f, r, o) ==
    IF Ended(o) THEN o
    ELSE IF r.carrier_col # None
    THEN [o EXCEPT !.carrier_counts = Some(ValueCounts(Column(f, r.carrier_col[1])))]
    ELSE Say(o, MsgNoCarrierInfo)

Dashboard(f, r, o) == DashboardCarriers(f, r, DashboardRevenue(f, r, DashboardKpis(f, r, o)))

----------------------------------------------------------------------------
(* Data Overview (lines 135-154).  The Pearson coefficients themselves are *)
(* not computed: the model records which columns the matrix is over.       *)

\* lines 140-141: isna().sum().sort_values(ascending=False), > 0, head(25)
MissingProfile(f) ==
    LET names == {c \in f.columns : HasNaN(Column(f, c))}
    IN  [c \in names |-> Cardinality({i \in 1..Len(f.rows) : IsNaN(f.rows[i][c])})]

\* line 148: select_dtypes(include=["number"])
NumericColumns(f) == {c \in f.columns : ~IsObject(f, c)}

DataOverview(f, o) ==
    LET mv  == MissingProfile(f)
        num == NumericColumns(f)
        o1  == IF Cardinality(DOMAIN mv) > 0 THEN o ELSE Say(o, MsgNoMissing)
        o2  == IF Cardinality(num) >= 2 THEN o1 ELSE Say(o1, MsgNoCorr)
    IN  [o2 EXCEPT !.overview = Some(
            [rows |-> Len(f.rows),
             missing |-> mv,
             missing_shown |-> IF Cardinality(DOMAIN mv) < MissingTop
                               THEN Cardinality(DOMAIN mv) ELSE MissingTop,
             corr |-> IF Cardinality(num) >= 2 THEN num ELSE {}])]

----------------------------------------------------------------------------
(* Products (RQ1), lines 157-174.                                          *)

\* lines 161-164 up to the sort: total_revenue and items_sold per product
ProductsAggOver(f, r, pc, ks) ==
    [i \in 1..Len(ks) |->
        [key |-> ks[i],
         total_revenue |-> GroupSum(GroupCells(f, pc, ks[i], r.rev_col[1])),
         items_sold |-> IF r.qty_col # None
                        THEN GroupSum(GroupCells(f, pc, ks[i], r.qty_col[1]))
                        ELSE GroupCount(GroupCells(f, pc, ks[i], r.rev_col[1]))]]

ProductsAgg(f, r) == ProductsAggOver(f, r, r.prod_col[1], GroupKeys(f, r.prod_col[1]))

SortByTotalRevenue(t) == SortValuesDesc(t, [i \in 1..Len(t) |-> t[i].total_revenue])

HeadOf(q, n) == [exc |-> q.exc, table |-> HeadN(q.table, n)]

\* line 164: .sort_values("total_revenue", ascending=False).head(top_n)
ProductsTopN(f, r, n) == HeadOf(SortByTotalRevenue(ProductsAgg(f, r)), n)

\* lines 168-172: the rows of the ten leading products, for the box plot
PriceFocus(f, r, grouped) ==
    LET focus == {grouped[i].key : i \in 1..(IF Len(grouped) < FocusTop
                                            THEN Len(grouped) ELSE FocusTop)}
    IN  SelectSeq(f.rows, LAMBDA row : row[r.prod_col[1]] \in focus)

ShowProducts(f, r, o, q) ==
    IF Raises(q) THEN Raise(o, q.exc)
    ELSE [o EXCEPT !.grouped = Some(q.table),
                   !.price_box = IF r.price_col # None
                                 THEN Some(PriceFocus(f, r, q.table)) ELSE None]

Products(f, r, n, o) ==
    IF r.prod_col # None /\ r.rev_col # None
    THEN ShowProducts(f, r, [o EXCEPT !.slider = TRUE], ProductsTopN(f, r, n))
    ELSE Say(o, MsgNoRequired)

----------------------------------------------------------------------------
(* Suppliers (RQ2), lines 177-194, and Logistics (RQ3), lines 197-210.     *)
(* Both run groupby(key).agg(a=..., b=..., count=("__dummy__", "size")).   *)

\* the bookkeeping column both named aggregations ask for
DummyColumn == "__dummy__"

\* one named aggregation of a metric: (col, "mean") if the role is
\* resolved, else (key_col, "count")
MeanOrCount(f, key_col, key, metric) ==
    IF metric # None
    THEN GroupMean(GroupCells(f, key_col, key, metric[1]))
    ELSE GroupCount(GroupCells(f, key_col, key, key_col))

\* groupby(key_col).agg(...).reset_index().  agg validates the selected
\* columns first (KeyError for one the frame lacks), and "mean" refuses an
\* object column (TypeError)
StatsOver(f, key_col, metric_a, metric_b, ks) ==
    [i \in 1..Len(ks) |->
        [key |-> ks[i],
         a |-> MeanOrCount(f, key_col, ks[i], metric_a),
         b |-> MeanOrCount(f, key_col, ks[i], metric_b),
         count |-> GroupSize(GroupCells(f, key_col, ks[i], DummyColumn))]]

StatsAgg(f, key_col, metric_a, metric_b) ==
    IF DummyColumn \notin f.columns THEN [exc |-> "KeyError", table |-> <<>>]
    ELSE IF \/ (metric_a # None /\ IsObject(f, metric_a[1]))
            \/ (metric_b # None /\ IsObject(f, metric_b[1]))
    THEN [exc |-> "TypeError", table |-> <<>>]
    ELSE [exc |-> "",
          table |-> StatsOver(f, key_col, metric_a, metric_b, GroupKeys(f, key_col))]

\* lines 179-194; the table shown is stats sorted by avg_lead (a) descending,
\* which never mixes kinds: a is a mean or a count
SortByAvgLead(t) == SortValuesDesc(t, [i \in 1..Len(t) |-> t[i].a])

ShowSuppliers(o, q) ==
    IF Raises(q) THEN Raise(o, q.exc)
    ELSE [o EXCEPT !.stats = Some(q.table),
                   !.stats_shown = Some(SortByAvgLead(q.table).table)]

Suppliers(f, r, o) ==
    IF r.supp_col # None
    THEN ShowSuppliers(o, StatsAgg(f, r.supp_col[1], r.lead_col, r.defect_col))
    ELSE Say(o, MsgNoSupplier)

\* lines 199-210
ShowLogistics(o, q) ==
    IF Raises(q) THEN Raise(o, q.exc) ELSE [o EXCEPT !.ship = Some(q.table)]

Logistics(f, r, o) ==
    IF r.carrier_col # None
    THEN ShowLogistics(o, StatsAgg(f, r.carrier_col[1], r.lead_col, r.ship_cost_col))
    ELSE Say(o, MsgNoCarrier)

----------------------------------------------------------------------------
(* Customers (RQ4), lines 213-220, and Diagnostics, lines 223-228.         *)

ShowCustomers(o, t) ==
    IF Raises(t) THEN Raise(o, t.exc) ELSE [o EXCEPT !.seg = Some(t.table)]

Customers(f, r, o) ==
    IF r.cust_seg_col # None /\ r.rev_col # None
    THEN ShowCustomers(o, GroupedSumSorted(f, r.cust_seg_col[1], r.rev_col[1]))
    ELSE Say(o, MsgNoSegRev)

\* the dtype df.dtypes reports for a column
Dtype(f, c) ==
    IF IsObject(f, c) THEN "object"
    ELSE IF HasNaN(Column(f, c)) THEN "float64" ELSE "int64"

\* df.to_csv(index=False): a missing cell is the empty field, a str its
\* text, a number its digits, followed by ".0" in a float64 column
ToCsvField(f, c, v) ==
    IF IsNaN(v) THEN TxtEmpty
    ELSE IF IsStr(v) THEN v.s
    ELSE IF Dtype(f, c) = "float64" THEN Digits(v.n) \o <<46, 48>>
    ELSE Digits(v.n)

to_csv(f) ==
    [cols |-> f.columns,
     rows |-> [i \in 1..Len(f.rows) |->
                 [c \in f.columns |-> ToCsvField(f, c, f.rows[i][c])]]]

Diagnostics(f, o) ==
    [o EXCEPT !.diagnostics = Some([dtypes |-> [c \in f.columns |-> Dtype(f, c)],
                                    export |-> to_csv(f)])]

----------------------------------------------------------------------------
(* The script from the Home page to its end (lines 75-228).                *)

DataPage(f, r, pg, n, o) ==
    CASE pg = "Dashboard"       -> Dashboard(f, r, o)
      [] pg = "Data Overview"   -> DataOverview(f, o)
      [] pg = "Products (RQ1)"  -> Products(f, r, n, o)
      [] pg = "Suppliers (RQ2)" -> Suppliers(f, r, o)
      [] pg = "Logistics (RQ3)" -> Logistics(f, r, o)
      [] pg = "Customers (RQ4)" -> Customers(f, r, o)
      [] pg = "Diagnostics"     -> Diagnostics(f, o)
      [] OTHER                  -> o

\* lines 88-90: the guard that stops a data page without data
NoDataGuard(d, pg) == d = None /\ pg # "Home"

\* d is the script's df (None or <<frame>>), pg the page, n the slider value
\* lines 93-228: the guesses, then the selected page
GuessAndRender(d, r, pg, n, o) ==
    IF Raises(safe_col(d, RevNames)) THEN Raise(o, safe_col(d, RevNames).exc)
    ELSE DataPage(d[1], r, pg, n, [o EXCEPT !.roles = Some(r)])

\* lines 88-228, o holding what lines 75-86 rendered
GuardAndRender(d, pg, n, o) ==
    IF NoDataGuard(d, pg) THEN [Say(o, MsgLoadFirst) EXCEPT !.stopped = TRUE]
    ELSE GuessAndRender(d, RoleGuesses(d), pg, n, o)

\* d is the script's df (None or <<frame>>), pg the page, n the slider value
RenderBody(d, pg, n, o) ==
    GuardAndRender(d, pg, n, IF pg = "Home" THEN [o EXCEPT !.home = TRUE] ELSE o)

----------------------------------------------------------------------------
(* Data loading (lines 19-47).                                             *)

UrlGood == "https://example.org/DataCoSupplyChainDataset.csv"
UrlMissing == "https://example.org/missing.csv"

\* nothing cached
NoCache == [local |-> None, bytes |-> <<>>, url |-> <<>>]

\* load_local (lines 29-31): the fixed path, FileNotFoundError if absent
load_local(world) ==
    IF world.local = None THEN [exc |-> "FileNotFoundError", frame |-> None]
    ELSE read_csv(world.local[1])

\* load_csv_from_bytes (lines 19-21)
load_csv_from_bytes(file) == read_csv(file)

\* load_csv_from_url (lines 23-27): raise_for_status() raises on a 404
load_csv_from_url(world, url) ==
    IF url \notin DOMAIN world.http THEN [exc |-> "HTTPError", frame |-> None]
    ELSE read_csv(world.http[url])

\* @st.cache_data: a stored result is returned without running the body;
\* a result is stored when the body returns, not when it raises
Cached(hit, stored, computed) ==
    IF hit THEN [exc |-> "", frame |-> stored, ran |-> FALSE]
    ELSE [exc |-> computed.exc, frame |-> computed.frame, ran |-> TRUE]

\* the outcome of the one loader call made: its result, and the cache
\* with the result stored under the call's key unless the body raised
LoadOutcome(src, q, c, stored) ==
    [src |-> src, res |-> q, cache |-> IF q.ran /\ ~Raises(q) THEN stored ELSE c]

FromLocal(c, q) == LoadOutcome("local", q, c, [c EXCEPT !.local = q.frame])
FromUpload(c, file, q) == LoadOutcome("upload", q, c, [c EXCEPT !.bytes = (file :> q.frame) @@ @])
FromUrl(c, url, q) == LoadOutcome("url", q, c, [c EXCEPT !.url = (url :> q.frame) @@ @])

\* a load block that tests the URL before the upload
LoadBlockUrlFirst(ul, up, url, world, c) ==
    IF ul THEN
        FromLocal(c, Cached(c.local # None, c.local, load_local(world)))
    ELSE IF url # "" THEN
        FromUrl(c, url,
                Cached(url \in DOMAIN c.url,
                       IF url \in DOMAIN c.url THEN c.url[url] ELSE None,
                       load_csv_from_url(world, url)))
    ELSE IF up # None THEN
        FromUpload(c, up[1],
                   Cached(up[1] \in DOMAIN c.bytes,
                          IF up[1] \in DOMAIN c.bytes THEN c.bytes[up[1]] ELSE None,
                          load_csv_from_bytes(up[1])))
    ELSE [src |-> "none", res |-> [exc |-> "", frame |-> None, ran |-> FALSE], cache |-> c]

\* lines 36-47 with load_btn true: the if / elif chain over the inputs
LoadBlock(ul, up, url, world, c) ==
    IF ul THEN
        FromLocal(c, Cached(c.local # None, c.local, load_local(world)))
    ELSE IF up # None THEN
        FromUpload(c, up[1],
                   Cached(up[1] \in DOMAIN c.bytes,
                          IF up[1] \in DOMAIN c.bytes THEN c.bytes[up[1]] ELSE None,
                          load_csv_from_bytes(up[1])))
    ELSE IF url # "" THEN
        FromUrl(c, url,
                Cached(url \in DOMAIN c.url,
                       IF url \in DOMAIN c.url THEN c.url[url] ELSE None,
                       load_csv_from_url(world, url)))
    ELSE [src |-> "none", res |-> [exc |-> "", frame |-> None, ran |-> FALSE], cache |-> c]

\* line 33 (df = None), then lines 36-47
DfAfterLoad(btn, lb) == IF btn /\ ~Raises(lb.res) THEN lb.res.frame ELSE None

\* what the sidebar shows after lines 36-47
LoadOutput(btn, lb) ==
    IF ~btn THEN NoOutput
    ELSE [NoOutput EXCEPT
            !.load_btn = TRUE,
            !.attempted = IF lb.src = "none" THEN <<>> ELSE <<lb.src>>,
            !.fetched = IF lb.res.ran THEN <<lb.src>> ELSE <<>>,
            !.load_exc = lb.res.exc,
            !.msgs = IF lb.src = "none" THEN {MsgNoInput}
                     ELSE IF Raises(lb.res) THEN {MsgLoadError} ELSE {}]

ScriptAfterLoad(btn, lb, d, pg, n, c) ==
    [df |-> d,
     cache |-> IF btn THEN lb.cache ELSE c,
     out |-> RenderBody(d, pg, n, LoadOutput(btn, lb))]

ScriptWith(btn, lb, pg, n, c) == ScriptAfterLoad(btn, lb, DfAfterLoad(btn, lb), pg, n, c)

\* one complete run of the script (lines 8-228).  btn: the run was
\* triggered by the Load button; n: the value the slider holds
Script(btn, ul, up, url, pg, n, world, c) ==
    ScriptWith(btn, LoadBlock(ul, up, url, world, c), pg, n, c)

----------------------------------------------------------------------------
(* The files of the session specification.                                 *)

\* a data row of a file with the given columns
Row3(c1, v1, c2, v2, c3, v3) == (c1 :> v1) @@ (c2 :> v2) @@ (c3 :> v3)

\* Product Name,Revenue,Quantity / A,100,2 / B,50,1 / A,20,1
Scenario1File ==
    [cols |-> {"Product Name", "Revenue", "Quantity"},
     rows |-> << Row3("Product Name", Letter(1), "Revenue", Digits(100), "Quantity", Digits(2)),
                 Row3("Product Name", Letter(2), "Revenue", Digits(50), "Quantity", Digits(1)),
                 Row3("Product Name", Letter(1), "Revenue", Digits(20), "Quantity", Digits(1)) >>]

\* Supplier Name,Lead time,Carrier / A,20,B / B,,A
SupplierFile ==
    [cols |-> {"Supplier Name", "Lead time", "Carrier"},
     rows |-> << Row3("Supplier Name", Letter(1), "Lead time", Digits(20), "Carrier", Letter(2)),
                 Row3("Supplier Name", Letter(2), "Lead time", TxtEmpty, "Carrier", Letter(1)) >>]

\* Customer Segment,Revenue,__dummy__ / A,abc,1 / B,,1
MixedFile ==
    [cols |-> {"Customer Segment", "Revenue", "__dummy__"},
     rows |-> << Row3("Customer Segment", Letter(1), "Revenue", TxtAbc, "__dummy__", Digits(1)),
                 Row3("Customer Segment", Letter(2), "Revenue", TxtEmpty, "__dummy__", Digits(1)) >>]

\* what the user may upload, what the fixed local path may hold
UploadFiles == {SupplierFile, EmptyFile}
LocalFiles == {None, Some(Scenario1File)}
Urls == {"", UrlGood, UrlMissing}
\* the URLs that answer 200, with the body served
Http == (UrlGood :> MixedFile)

World == [local |-> local_file, http |-> Http]

----------------------------------------------------------------------------
(* The session: Init is the state after the first run; every action is a   *)
(* widget interaction followed by the script run Streamlit triggers.       *)

\* the state after the script run an interaction triggers; run is what
\* the script computed with the widgets' new values
RerunWith(run, ul, up, url, pg, n) ==
        /\ use_local' = ul
        /\ uploaded' = up
        /\ data_url' = url
        /\ page' = pg
        /\ df' = run.df
        /\ cache' = run.cache
        /\ out' = run.out
        \* a slider the run did not render loses its value
        /\ top_n' = IF run.out.slider THEN n ELSE SliderDefault
        /\ last_ok' = IF run.df # None THEN run.df ELSE last_ok
        /\ UNCHANGED local_file

Rerun(btn, ul, up, url, pg, n) ==
    RerunWith(Script(btn, ul, up, url, pg, n, World, cache), ul, up, url, pg, n)

Init ==
    /\ use_local = FALSE
    /\ data_url = ""
    /\ uploaded = None
    /\ page = "Home"
    /\ top_n = SliderDefault
    /\ local_file \in LocalFiles
    /\ cache = NoCache
    /\ df = None
    /\ last_ok = None
    /\ out = Script(FALSE, FALSE, None, "", "Home", SliderDefault,
                    [local |-> local_file, http |-> Http], NoCache).out

ToggleLocal ==
    \E b \in BOOLEAN \ {use_local} : Rerun(FALSE, b, uploaded, data_url, page, top_n)

EditUrl == \E u \in Urls \ {data_url} : Rerun(FALSE, use_local, uploaded, u, page, top_n)

ChooseUpload ==
    \E f \in {Some(x) : x \in UploadFiles} \cup {None} :
        f # uploaded /\ Rerun(FALSE, use_local, f, data_url, page, top_n)

SelectPage == \E p \in Pages \ {page} : Rerun(FALSE, use_local, uploaded, data_url, p, top_n)

MoveSlider ==
    /\ out.slider
    /\ \E n \in (SliderMin..SliderMax) \ {top_n} :
           Rerun(FALSE, use_local, uploaded, data_url, page, n)

ClickLoad ==
    /\ page \in Pages
    /\ Rerun(TRUE, use_local, uploaded, data_url, page, top_n)

Next == ToggleLocal \/ EditUrl \/ ChooseUpload \/ SelectPage \/ MoveSlider \/ ClickLoad

Spec == Init /\ [][Next]_vars

----------------------------------------------------------------------------
(* The views as functions of a loaded DataFrame: Init draws the file the   *)
(* DataFrame was parsed from, the page and the slider value from bounded   *)
(* sets, and RenderView applies lines 75-228 to them.                      *)

\* the columns that hold a group key; every other column holds a metric
KeyColumns == {"Product Name", "Supplier Name", "Shipping Mode", "Carrier",
               "Customer Segment", "Order ID"}

ViewHeaders ==
    { {"Product Name", "Revenue", "Quantity"},
      {"Product Name", "Revenue", "Price"},
      {"Product Name", "Quantity"},
      {"Revenue", "Order ID"},
      {"Supplier Name", "Lead time", "Defect rates"},
      {"Supplier Name", "Lead time", "Defect rates", "__dummy__"},
      {"Supplier Name", "__dummy__"},
      {"Lead time", "Defect rates", "__dummy__"},
      {"Shipping Mode", "Shipping costs", "__dummy__"},
      {"Carrier", "Lead time"},
      {"Customer Segment", "Revenue"},
      {"Customer Segment", "Price"} }

KeyTexts == {Letter(1), Letter(2), TxtEmpty}
MetricTexts == {TxtEmpty, TxtNA, TxtAbc, Digits(20), Digits(100)}

\* the data rows of an enumerated file: a key text and a metric text each
\* (at least one row: the typing of a file without data rows is not modelled)
RowSpecs == UNION {[1..n -> [key : KeyTexts, metric : MetricTexts]] : n \in 1..MaxRows}

\* the file with header h whose rows put the key text into every key
\* column and the metric text into every metric column
EnumFile(h, spec) ==
    [cols |-> h,
     rows |-> [i \in 1..Len(spec) |->
                 [c \in h |-> IF c \in KeyColumns THEN spec[i].key ELSE spec[i].metric]]]

\* a file with k products, one row each, of the given revenues
WideFile(k, revenue) ==
    [cols |-> {"Product Name", "Revenue"},
     rows |-> [i \in 1..k |->
                 ("Product Name" :> Letter(i)) @@ ("Revenue" :> Digits(revenue[i]))]]

WideFiles ==
    {WideFile(k, rev) : k \in {MaxGroups}, rev \in [1..MaxGroups -> {20, 100}]}
    \cup {WideFile(SliderMin + 1, [i \in 1..(SliderMin + 1) |-> 10 * i])}

ViewFiles ==
    {EnumFile(h, spec) : h \in ViewHeaders, spec \in RowSpecs}
    \cup WideFiles \cup {Scenario1File, SupplierFile, MixedFile}

InitView ==
    /\ use_local = FALSE
    /\ data_url = ""
    /\ uploaded = None
    /\ local_file = None
    /\ cache = NoCache
    /\ last_ok = None
    /\ \E file \in ViewFiles : df = read_csv(file).frame
    /\ page \in Pages \ {"Home"}
    /\ top_n \in IF page = "Products (RQ1)" THEN SliderMin..SliderMax ELSE {SliderDefault}
    /\ out = NoOutput

RenderView ==
    /\ out = NoOutput
    /\ out' = RenderBody(df, page, top_n, NoOutput)
    /\ UNCHANGED <<use_local, data_url, uploaded, page, top_n, local_file, cache, df, last_ok>>

NextView == RenderView

SpecView == InitView /\ [][NextView]_vars

----------------------------------------------------------------------------
(* Role resolution as a function of the column names: Init draws the       *)
(* header of an (empty) DataFrame, ResolveRoles applies lines 93-103.      *)

Range(q) == {q[i] : i \in 1..Len(q)}

CandidateLists ==
    {RevNames, PriceNames, QtyNames, ProdNames, SuppNames, LeadNames, DefectNames,
     CarrierNames, ShipCostNames, CustSegNames, RegionNames}

\* names that are no candidate of any role: other case, other spacing,
\* a prefix of a candidate, columns the script uses otherwise
DecoyNames == {"revenue", "PRODUCT NAME", "Supplier", "Shipping mode", "Order ID", "__dummy__"}

ResolveHeaders ==
    {s \cup t : s \in UNION {SUBSET Range(l) : l \in CandidateLists},
                t \in {x \in SUBSET DecoyNames : Cardinality(x) <= MaxDecoys}}
    \cup {Range(a) \cup Range(b) : a, b \in CandidateLists}

InitResolve ==
    /\ use_local = FALSE
    /\ data_url = ""
    /\ uploaded = None
    /\ local_file = None
    /\ cache = NoCache
    /\ last_ok = None
    /\ page = "Home"
    /\ top_n = SliderDefault
    /\ \E h \in ResolveHeaders : df = Some([columns |-> h, rows |-> <<>>])
    /\ out = NoOutput

ResolveRoles ==
    /\ out = NoOutput
    /\ out' = [NoOutput EXCEPT !.roles = Some(RoleGuesses(df))]
    /\ UNCHANGED <<use_local, data_url, uploaded, page, top_n, local_file, cache, df, last_ok>>

NextResolve == ResolveRoles

SpecResolve == InitResolve /\ [][NextResolve]_vars

----------------------------------------------------------------------------
(* Properties of the session (specification Spec).                         *)

\* the load attempt of the latest run failed
LoadFailed == out.load_btn /\ out.load_exc # ""

\* the latest run rendered a data page against a DataFrame
RenderedData == out.roles # None

\* C1: when a Dataset was loaded successfully and a later Load click
\* fails, the failed load shows the load error message and the previously
\* loaded Dataset is still the current one: the data page renders against it
C1_FailedLoadKeepsDataset ==
    (LoadFailed /\ last_ok # None) =>
        /\ MsgLoadError \in out.msgs
        /\ df = last_ok
        /\ page # "Home" => (RenderedData /\ MsgLoadFirst \notin out.msgs)

\* C2: after a successful load the Dataset stays the current one: a run
\* that is not a load (a page change, a slider move) evaluates the view
\* against the Dataset loaded last
C2_DatasetHeldForSession ==
    (last_ok # None /\ ~out.load_btn) =>
        /\ df = last_ok
        /\ page # "Home" => (RenderedData /\ MsgLoadFirst \notin out.msgs)

\* C3: a run without Dataset ends without an unhandled error on every
\* page: Home renders its static content, each other page shows the
\* prompt to load data and stops before role resolution or aggregation
C3_NoDataRunEndsCleanly ==
    df = None =>
        /\ out.exc = ""
        /\ page = "Home" => out.home
        /\ page # "Home" => /\ MsgLoadFirst \in out.msgs
                            /\ out.stopped
                            /\ out.roles = None

\* the source the spec's priority (local path > upload > URL) selects
ChosenSource ==
    IF use_local THEN "local"
    ELSE IF uploaded # None THEN "upload"
    ELSE IF data_url # "" THEN "url"
    ELSE "none"

\* what the selected source holds, parsed
ChosenFrame ==
    CASE ChosenSource = "local"  -> load_local(World).frame
      [] ChosenSource = "upload" -> read_csv(uploaded[1]).frame
      [] ChosenSource = "url"    -> load_csv_from_url(World, data_url).frame
      [] OTHER                   -> None

\* C4: a Load click attempts exactly one source, the one the priority
\* local path > upload > URL selects among the inputs supplied, and the
\* resulting Dataset is that source's; with no input supplied it attempts
\* none, shows the warning and no Dataset results
C4_OneSourceByPriority ==
    out.load_btn =>
        /\ out.attempted = IF ChosenSource = "none" THEN <<>> ELSE <<ChosenSource>>
        /\ df = ChosenFrame
        /\ ChosenSource = "none" => (MsgNoInput \in out.msgs /\ df = None)
        /\ ChosenSource # "none" => MsgNoInput \notin out.msgs

\* a Load click with all three inputs supplied, served from the local path
C4_Witness ==
    /\ out.load_btn
    /\ use_local /\ uploaded # None /\ data_url # ""
    /\ out.attempted = <<"local">>
    /\ df # None

----------------------------------------------------------------------------
(* Role resolution (specification SpecResolve).                            *)

\* the table of section 4.2 of the specification
SpecTable ==
    [revenue          |-> <<"Revenue", "Revenue generated", "Benefit per order", "Benefit", "Profit">>,
     price            |-> <<"Price", "Unit price", "Price per unit">>,
     quantity         |-> <<"Quantity", "Order Item Quantity", "Number of products sold">>,
     product          |-> <<"Product Name", "SKU", "Product", "Product type", "Product Category">>,
     supplier         |-> <<"Supplier Name", "Supplier name">>,
     lead_time        |-> <<"Lead time", "Shipment Days", "Shipping Time", "Shipping days">>,
     defect_rate      |-> <<"Defect rates", "Defects">>,
     carrier          |-> <<"Shipping carriers", "Shipping Mode", "Carrier">>,
     shipping_cost    |-> <<"Shipping costs", "Freight Cost">>,
     customer_segment |-> <<"Customer Segment", "Customer demographics", "Segment">>,
     region           |-> <<"Region", "Customer Country", "Market">>]

\* the candidate of least index that is a column, None when none is
FirstMember(names, cols) ==
    IF \E i \in 1..Len(names) : names[i] \in cols
    THEN Some(names[CHOOSE i \in 1..Len(names) :
                        /\ names[i] \in cols
                        /\ \A j \in 1..(i - 1) : names[j] \notin cols])
    ELSE None

\* C5: each of the eleven roles resolves to the first name of its
\* candidate list in the table of section 4.2 that is, exactly and
\* case-sensitively, a column of the dataset, and to None when none is
C5_ResolveFirstCandidate ==
    out.roles # None =>
        /\ out.roles[1].rev_col = FirstMember(SpecTable.revenue, df[1].columns)
        /\ out.roles[1].price_col = FirstMember(SpecTable.price, df[1].columns)
        /\ out.roles[1].qty_col = FirstMember(SpecTable.quantity, df[1].columns)
        /\ out.roles[1].prod_col = FirstMember(SpecTable.product, df[1].columns)
        /\ out.roles[1].supp_col = FirstMember(SpecTable.supplier, df[1].columns)
        /\ out.roles[1].lead_col = FirstMember(SpecTable.lead_time, df[1].columns)
        /\ out.roles[1].defect_col = FirstMember(SpecTable.defect_rate, df[1].columns)
        /\ out.roles[1].carrier_col = FirstMember(SpecTable.carrier, df[1].columns)
        /\ out.roles[1].ship_cost_col = FirstMember(SpecTable.shipping_cost, df[1].columns)
        /\ out.roles[1].cust_seg_col = FirstMember(SpecTable.customer_segment, df[1].columns)
        /\ out.roles[1].region_col = FirstMember(SpecTable.region, df[1].columns)

\* two candidates of product present without the first of the list, and a
\* revenue column that differs from the candidate in case only
C5_Witness ==
    /\ out.roles # None
    /\ {"SKU", "Product type", "revenue"} \subseteq df[1].columns
    /\ "Product Name" \notin df[1].columns
    /\ out.roles[1].prod_col = Some("SKU")
    /\ out.roles[1].rev_col = None

----------------------------------------------------------------------------
(* Properties of the views (specification SpecView).                       *)

\* the latest run rendered the selected page
Rendered == out # NoOutput

Roles == out.roles[1]
Frame == df[1]

\* a cell the specification's coercion policy counts: a number, or a str
\* that reads as one
SpecNumeric(v) == IsNum(v) \/ (IsStr(v) /\ IsDigits(v.s))
SpecValue(v) == IF IsNum(v) THEN v.n ELSE ParseNat(v.s)

RECURSIVE SpecSum(_)
\* the sum of the numeric cells only
SpecSum(vs) ==
    IF vs = <<>> THEN 0
    ELSE (IF SpecNumeric(vs[1]) THEN SpecValue(vs[1]) ELSE 0) + SpecSum(Tail(vs))

SpecCount(vs) == Cardinality({i \in 1..Len(vs) : SpecNumeric(vs[i])})

\* the mean of the numeric cells only (missing when there is none)
SpecMean(vs) == IF SpecCount(vs) = 0 THEN NaN ELSE Rat(SpecSum(vs), SpecCount(vs))

\* the distinct non-missing values of a column
KeysOf(c) == {Frame.rows[i][c] : i \in {j \in 1..Len(Frame.rows) : ~IsNaN(Frame.rows[j][c])}}

\* the cells of column m in the rows whose column c holds key
CellsOf(c, key, m) == Column([Frame EXCEPT !.rows = SelectSeq(Frame.rows, LAMBDA r : r[c] = key)], m)

\* the cells of column m in the rows whose column c is not missing
CellsWithKey(c, m) ==
    Column([Frame EXCEPT !.rows = SelectSeq(Frame.rows, LAMBDA r : ~IsNaN(r[c]))], m)

\* table t has exactly one row per distinct value of column c
OneRowPerGroup(t, c) ==
    /\ Len(t) = Cardinality(KeysOf(c))
    /\ {t[i].key : i \in 1..Len(t)} = KeysOf(c)

\* the grouped statistics of RQ2 / RQ3: one row per group with the
\* group's row count, and the mean of each resolved numeric metric or a
\* row count for an unresolved one
StatsAsSpecified(t, c, metric_a, metric_b) ==
    /\ OneRowPerGroup(t, c)
    /\ \A i \in 1..Len(t) :
          /\ t[i].count = Num(Len(CellsOf(c, t[i].key, c)))
          /\ metric_a = None => t[i].a = Num(Len(CellsOf(c, t[i].key, c)))
          /\ metric_b = None => t[i].b = Num(Len(CellsOf(c, t[i].key, c)))
          /\ (metric_a # None /\ ~IsObject(Frame, metric_a[1])) =>
                 ValEq(t[i].a, SpecMean(CellsOf(c, t[i].key, metric_a[1])))
          /\ (metric_b # None /\ ~IsObject(Frame, metric_b[1])) =>
                 ValEq(t[i].b, SpecMean(CellsOf(c, t[i].key, metric_b[1])))

\* C6: with the supplier role (Suppliers) or the carrier role (Logistics)
\* resolved, the grouped-stats query completes and yields one row per
\* group with the group's row count and, per metric, its mean or a row
\* count, whether or not the metric roles are resolved
C6_GroupedStatsComplete ==
    /\ (Rendered /\ page = "Suppliers (RQ2)" /\ Roles.supp_col # None) =>
          /\ out.exc = ""
          /\ out.stats # None
          /\ StatsAsSpecified(out.stats[1], Roles.supp_col[1], Roles.lead_col, Roles.defect_col)
    /\ (Rendered /\ page = "Logistics (RQ3)" /\ Roles.carrier_col # None) =>
          /\ out.exc = ""
          /\ out.ship # None
          /\ StatsAsSpecified(out.ship[1], Roles.carrier_col[1], Roles.lead_col, Roles.ship_cost_col)

\* the view shows this notice, raised nothing and computed nothing
OnlyNotice(m, result) == m \in out.msgs /\ out.exc = "" /\ result = None

\* C7: a view whose grouping or summed role is unresolved renders its
\* column-not-found notice, aggregates nothing and does not fail
C7_UnresolvedRoleShowsNotice ==
    Rendered =>
        /\ (page = "Suppliers (RQ2)" /\ Roles.supp_col = None) =>
               OnlyNotice(MsgNoSupplier, out.stats)
        /\ (page = "Logistics (RQ3)" /\ Roles.carrier_col = None) =>
               OnlyNotice(MsgNoCarrier, out.ship)
        /\ (page = "Dashboard" /\ Roles.carrier_col = None) =>
               OnlyNotice(MsgNoCarrierInfo, out.carrier_counts)
        /\ (page = "Dashboard" /\ (Roles.prod_col = None \/ Roles.rev_col = None)) =>
               OnlyNotice(MsgNoProdRev, out.rev_by_prod)
        /\ (page = "Products (RQ1)" /\ (Roles.prod_col = None \/ Roles.rev_col = None)) =>
               OnlyNotice(MsgNoRequired, out.grouped)
        /\ (page = "Customers (RQ4)" /\ (Roles.cust_seg_col = None \/ Roles.rev_col = None)) =>
               OnlyNotice(MsgNoSegRev, out.seg)

Min(a, b) == IF a < b THEN a ELSE b

\* the total revenue of the group of key in column c
RevenueOf(c, key) == SpecSum(CellsOf(c, key, Roles.rev_col[1]))

\* the rows of table t, grouped by column c, are in descending order of
\* their groups' total revenue
DescendingRevenue(t, c) ==
    \A i \in 1..(Len(t) - 1) : RevenueOf(c, t[i].key) >= RevenueOf(c, t[i + 1].key)


\* C8: with product and revenue resolved, the RQ1 query returns
\* min(N, number of product groups) rows in descending order of total
\* revenue, and no omitted group has a larger total than a returned one
C8_TopNRows ==
    (Rendered /\ page = "Products (RQ1)" /\ Roles.prod_col # None /\ Roles.rev_col # None) =>
        /\ out.exc = ""
        /\ out.grouped # None
        /\ Len(out.grouped[1]) = Min(top_n, Cardinality(KeysOf(Roles.prod_col[1])))
        /\ DescendingRevenue(out.grouped[1], Roles.prod_col[1])
        /\ \A g \in KeysOf(Roles.prod_col[1]) \ {out.grouped[1][i].key : i \in 1..Len(out.grouped[1])} :
              \A i \in 1..Len(out.grouped[1]) :
                  RevenueOf(Roles.prod_col[1], g) <= RevenueOf(Roles.prod_col[1], out.grouped[1][i].key)

RECURSIVE SumOfValues(_)
SumOfValues(t) == IF t = <<>> THEN 0 ELSE t[1].value.n + SumOfValues(Tail(t))

\* the DataFrame of end-to-end scenario 1
Scenario1Frame == read_csv(Scenario1File).frame

\* C9: with product and revenue resolved, the totals of revenue by
\* product add up to the revenue of the rows that have a product, in
\* descending order; scenario 1 gives [(A, 120), (B, 50)] and a KPI total
\* revenue of 170
C9_RevenueByProductTotals ==
    (Rendered /\ page = "Dashboard" /\ Roles.prod_col # None /\ Roles.rev_col # None) =>
        /\ out.exc = ""
        /\ out.rev_by_prod # None
        /\ DescendingRevenue(out.rev_by_prod[1], Roles.prod_col[1])
        /\ \A i \in 1..Len(out.rev_by_prod[1]) : IsNum(out.rev_by_prod[1][i].value)
        /\ SumOfValues(out.rev_by_prod[1])
               = SpecSum(CellsWithKey(Roles.prod_col[1], Roles.rev_col[1]))
        /\ df = Scenario1Frame =>
               /\ out.rev_by_prod[1] = << [key |-> Str(Letter(1)), value |-> Num(120)],
                                          [key |-> Str(Letter(2)), value |-> Num(50)] >>
               /\ out.kpi[1].TotalRevenue = Some(Num(170))

\* every row of t holds the sum of the numeric cells of its group
SumsNumericOnly(t, c, m, Total(_)) ==
    \A i \in 1..Len(t) : Total(t[i]) = Num(SpecSum(CellsOf(c, t[i].key, m)))

TotalRevenueOf(row) == row.total_revenue
ValueOf(row) == row.value
ItemsSoldOf(row) == row.items_sold

\* C10: a sum over a role column that mixes numbers, missing values and
\* text is the sum of its numeric cells: the other cells are left out,
\* not counted as zero, and do not make the aggregation fail (KPI total
\* revenue, revenue by product, RQ1 totals and items sold, segment revenue)
C10_NumericCellsOnly ==
    Rendered =>
        /\ (page = "Dashboard" /\ Roles.rev_col # None) =>
              /\ out.exc = ""
              /\ out.kpi # None
              /\ out.kpi[1].TotalRevenue = Some(Num(SpecSum(Column(Frame, Roles.rev_col[1]))))
        /\ (page = "Dashboard" /\ Roles.rev_col # None /\ Roles.prod_col # None) =>
              /\ out.rev_by_prod # None
              /\ SumsNumericOnly(out.rev_by_prod[1], Roles.prod_col[1], Roles.rev_col[1], ValueOf)
        /\ (page = "Products (RQ1)" /\ Roles.rev_col # None /\ Roles.prod_col # None) =>
              /\ out.exc = ""
              /\ out.grouped # None
              /\ SumsNumericOnly(out.grouped[1], Roles.prod_col[1], Roles.rev_col[1], TotalRevenueOf)
              /\ Roles.qty_col # None =>
                     SumsNumericOnly(out.grouped[1], Roles.prod_col[1], Roles.qty_col[1], ItemsSoldOf)
        /\ (page = "Customers (RQ4)" /\ Roles.rev_col # None /\ Roles.cust_seg_col # None) =>
              /\ out.exc = ""
              /\ out.seg # None
              /\ SumsNumericOnly(out.seg[1], Roles.cust_seg_col[1], Roles.rev_col[1], ValueOf)

----------------------------------------------------------------------------
(* The same view properties on the loaded Datasets whose metric columns    *)
(* read_csv typed numeric: what holds where no text cell is summed.        *)

\* no column of the DataFrame has dtype object but the columns of keys
MetricsNumeric == \A c \in Frame.columns \ KeyColumns : ~IsObject(Frame, c)

C7_WhenMetricsNumeric == MetricsNumeric => C7_UnresolvedRoleShowsNotice
C8_WhenMetricsNumeric == MetricsNumeric => C8_TopNRows
C9_WhenMetricsNumeric == MetricsNumeric => C9_RevenueByProductTotals
C10_WhenMetricsNumeric == MetricsNumeric => C10_NumericCellsOnly
C6_WhenDummyColumn == (DummyColumn \in Frame.columns /\ MetricsNumeric) => C6_GroupedStatsComplete

\* head(N) cut groups away
C8_CutReached ==
    /\ Rendered /\ page = "Products (RQ1)" /\ out.grouped # None
    /\ Len(out.grouped[1]) = top_n
    /\ Cardinality(KeysOf(Roles.prod_col[1])) > top_n

====
